---- MODULE Spec2Model ----
(***************************************************************************)
(* A model of get_details.py: the retrying HTTP caller                     *)
(* (api_request_with_retry), the authenticator (sign_in), the snapshot     *)
(* reality fetcher (get_active_realities), the batch driver                *)
(* (process_custom_snapshots) and the script body (__main__).              *)
(*                                                                         *)
(* The program is sequential.  pc is the position of the script and of    *)
(* the function it is in; rpc is the position inside the one active call  *)
(* of api_request_with_retry.  The remote server, the transport and the   *)
(* descriptor files are the environment: their answers are drawn from     *)
(* bounded sets when the code reads them.                                  *)
(***************************************************************************)
EXTENDS Integers, Sequences, FiniteSets, TLC

VARIABLES
    pc,            \* position of the script, or of the function a caller entered
    rpc,           \* position inside api_request_with_retry
    request,       \* arguments of the active call: name, url, authorization header
    retries,       \* its retries argument
    attempt,       \* its loop variable
    response,      \* the response it holds (None before)
    error,         \* the APIResponseError it raised (message parts)
    nFail,         \* transport: how many requests of this call still raise first
    log,           \* transport/clock: "request" and "sleep" events of this call
    delivered,     \* transport: the response it handed to this call (None before)
    sent,          \* every request put on the wire in this run
    token,         \* __main__: the token sign_in returned
    signin,        \* outcome of sign_in
    json_files,    \* process_custom_snapshots: number of selected files
    idx,           \* index of the file the loop is at (files done so far)
    data,          \* the parsed content of the current file
    active,        \* outcome of get_active_realities for the current file
    results,       \* the accumulated result rows
    csv_opens,     \* how many times the output file was opened for writing
    csv_lines,     \* the lines of the output file
    fetchlog,      \* every list get_active_realities returned, with its arguments
    outcomes       \* how each file's iteration ended: "rows", "skipped" or "error"

vars == <<pc, rpc, request, retries, attempt, response, error, nFail, log,
          delivered, sent,
          token, signin, json_files, idx, data, active, results, csv_opens,
          csv_lines, fetchlog, outcomes>>

callvars == <<rpc, request, retries, attempt, response, error, nFail, log,
              delivered, sent>>
runvars == <<token, signin, json_files, idx, data, active, results, csv_opens,
             csv_lines, fetchlog, outcomes>>

(***************************************************************************)
(* Bounds of the model.                                                    *)
(***************************************************************************)
MaxRetries == 3
MaxFail == 3
MaxNodes == 3
MaxFiles == 2
RunNodes == 3

\* retries=3 in the signature of api_request_with_retry; sign_in and
\* get_active_realities call it without a retries argument.
DefaultRetries == 3

(***************************************************************************)
(* Values.                                                                 *)
(***************************************************************************)
Absent == "absent"          \* a key the JSON object does not have
None == "None"              \* Python's None
Tokens == {"tokA", "tokB"}
SnapshotIds == {"SN1", "SN2"}
RealityIds == {"R1", "R2"}
StatusStrings == {"active", "Active", "inactive"}
StatusCodes == {200, 201, 404, 500}

\* A response body.  kind "notjson": response.json() raises.  Otherwise a JSON
\* object with the keys the program reads: success, result, result.token and
\* result.mSnapshots (snaps), each possibly absent.
Body(kind, success, result, tok, snaps) ==
    [kind |-> kind, success |-> success, result |-> result, token |-> tok,
     snaps |-> snaps]
EmptyBody == Body("object", Absent, Absent, Absent, <<>>)
NotJson == Body("notjson", Absent, Absent, Absent, <<>>)
NoResponse == [status |-> 0, body |-> Body(None, Absent, Absent, Absent, <<>>)]
NoError == [type |-> None, op |-> "", attempts |-> -1]
NoRequest == [method |-> None, name |-> "", url |-> <<>>, auth |-> <<>>]
NoData == [kind |-> None, project_id |-> None, structure_id |-> None,
           snapshot_id |-> None]
NoOutcome == [kind |-> None, value |-> <<>>, exc |-> None]

Return(v) == [kind |-> "return", value |-> v, exc |-> None]
Raise(e) == [kind |-> "raise", value |-> <<>>, exc |-> e]

Requests(l) == Cardinality({i \in DOMAIN l : l[i] = "request"})
Sleeps(l) == Cardinality({i \in DOMAIN l : l[i] = "sleep"})

(***************************************************************************)
(* api_request_with_retry                                                  *)
(***************************************************************************)
\* line 22: sleep before the next attempt unless this was the last one
SleepsAfter_Always(a, r) == a < r
SleepsAfter(a, r) == a < r - 1

\* line 25: f"Failed {request_name} after {retries} attempts: {e}"
FailureMessage(name, r) == [type |-> "APIResponseError", op |-> name, attempts |-> r]

\* line 15-17: the call binds its arguments and enters the loop; range(retries)
\* is empty for retries <= 0, the loop body never runs and the function falls
\* off its end, returning None.
ApiEnter(req, r, fails) ==
    /\ request' = req
    /\ retries' = r
    /\ attempt' = 0
    /\ response' = NoResponse
    /\ error' = NoError
    /\ nFail' = fails
    /\ log' = <<>>
    /\ delivered' = NoResponse
    /\ rpc' = IF 0 < r THEN "attempt" ELSE "returned"
    /\ UNCHANGED sent

\* The frames of api_request_with_retry and of its caller are gone once the
\* caller has returned; what was put on the wire stays.
FramePopped ==
    /\ rpc' = "idle"
    /\ request' = NoRequest
    /\ retries' = 0
    /\ attempt' = 0
    /\ response' = NoResponse
    /\ error' = NoError
    /\ nFail' = 0
    /\ log' = <<>>
    /\ delivered' = NoResponse
    /\ UNCHANGED sent

\* line 19, 21-25: requests.request raises a RequestException
TransportRaises ==
    /\ rpc = "attempt"
    /\ Requests(log) < nFail
    /\ log' = Append(log, "request")
    /\ sent' = sent \cup {request}
    /\ IF SleepsAfter(attempt, retries)
         THEN /\ rpc' = "sleep"
              /\ UNCHANGED error
         ELSE /\ rpc' = "raised"
              /\ error' = FailureMessage(request.name, retries)
    /\ UNCHANGED <<pc, request, retries, attempt, response, nFail, delivered>>
    /\ UNCHANGED runvars

\* line 23 and the loop's next iteration
Sleep ==
    /\ rpc = "sleep"
    /\ log' = Append(log, "sleep")
    /\ attempt' = attempt + 1
    /\ rpc' = IF attempt + 1 < retries THEN "attempt" ELSE "returned"
    /\ UNCHANGED <<pc, request, retries, response, error, nFail, delivered, sent>>
    /\ UNCHANGED runvars

\* line 19-20: requests.request returns a response, whatever its status code
OnResponse_RetryServerErrors(resp) ==
    IF resp.status < 500
      THEN /\ rpc' = "returned"
           /\ response' = resp
           /\ UNCHANGED attempt
      ELSE /\ rpc' = IF attempt + 1 < retries THEN "sleep" ELSE "returned"
           /\ response' = NoResponse
           /\ UNCHANGED attempt
OnResponse(resp) ==
    /\ rpc' = "returned"
    /\ response' = resp
    /\ UNCHANGED attempt

TransportResponds(universe) ==
    /\ rpc = "attempt"
    /\ Requests(log) >= nFail
    /\ \E resp \in universe :
         /\ log' = Append(log, "request")
         /\ delivered' = resp
         /\ sent' = sent \cup {request}
         /\ OnResponse(resp)
    /\ UNCHANGED <<pc, request, retries, error, nFail>>
    /\ UNCHANGED runvars

(***************************************************************************)
(* sign_in                                                                 *)
(***************************************************************************)
\* line 28-30: the POST to the login url, with the default retries
SignInRequest ==
    [method |-> "POST", name |-> "sign_in", url |-> <<"users", "signin">>,
     auth |-> <<>>]

\* line 30-39, once api_request_with_retry has returned or raised
sign_in_AnyStatus(how, resp) ==
    IF how = "raised" THEN Raise("APIResponseError")
    ELSE IF resp = NoResponse THEN Raise("AttributeError")
    ELSE IF resp.body.kind = "notjson" THEN Raise("JSONDecodeError")
    ELSE IF resp.body.success \in {Absent, "false"} THEN Raise("APIResponseError")
    ELSE IF resp.body.result = Absent \/ resp.body.token = Absent
      THEN Raise("KeyError")
    ELSE Return(resp.body.token)
sign_in(how, resp) ==
    IF how = "raised" THEN Raise("APIResponseError")                 \* line 30
    ELSE IF resp = NoResponse THEN Raise("AttributeError")           \* line 32
    ELSE IF resp.status \notin {200, 201} THEN Raise("APIResponseError")
    ELSE IF resp.body.kind = "notjson" THEN Raise("JSONDecodeError") \* line 35
    ELSE IF resp.body.success \in {Absent, "false"}                  \* line 36
      THEN Raise("APIResponseError")
    ELSE IF resp.body.result = Absent \/ resp.body.token = Absent    \* line 39
      THEN Raise("KeyError")
    ELSE Return(resp.body.token)

SignInBodies ==
    {NotJson} \cup
    {Body("object", sc, rs, tk, <<>>) :
        sc \in {Absent, "false", "true"},
        rs \in {"object"}, tk \in Tokens \cup {Absent}} \cup
    {Body("object", sc, Absent, Absent, <<>>) : sc \in {Absent, "false", "true"}}
SignInResponses == [status : StatusCodes, body : SignInBodies]

(***************************************************************************)
(* get_active_realities                                                    *)
(***************************************************************************)
\* line 44: the authorization header
AuthHeader_NoToken(tok) == <<"Bearer", None>>
AuthHeader(tok) == <<"Bearer", tok>>

\* line 43-45: the GET of the structure's snapshot list
SnapshotsRequest(project_id, structure_id, auth_token) ==
    [method |-> "GET", name |-> "get_all_snapshots",
     url |-> <<"projects", project_id, "structures", structure_id, "snapshots">>,
     auth |-> AuthHeader(auth_token)]

\* line 57: str.lower() on the status strings of the model
Lower_Identity(st) == st
Lower(st) ==
    CASE st = "Active" -> "active"
      [] st = "ACTIVE" -> "active"
      [] OTHER -> st

\* line 57: reality.get("status", "").lower() == "active"
IsActive(reality) ==
    Lower(IF reality.status = Absent THEN "" ELSE reality.status) = "active"

\* line 56-58: the inner loop over one snapshot's reality entries;
\* reality["_id"] raises KeyError when the key is missing
RECURSIVE CollectRealities(_, _)
CollectRealities(realities, acc) ==
    IF realities = <<>> THEN Return(acc)
    ELSE IF ~IsActive(Head(realities)) THEN CollectRealities(Tail(realities), acc)
    ELSE IF Head(realities).id = Absent THEN Raise("KeyError")
    ELSE CollectRealities(Tail(realities), Append(acc, Head(realities).id))

\* line 54: the snapshots whose entries are collected
Selects_Any(snap, snapshot_id) == TRUE
Selects(snap, snapshot_id) == snap.id = snapshot_id

\* line 53-58: the outer loop; snap["_id"] raises KeyError when the key is missing
RECURSIVE CollectSnapshots(_, _, _)
CollectSnapshots(snaps, snapshot_id, acc) ==
    IF snaps = <<>> THEN Return(acc)
    ELSE IF Head(snaps).id = Absent THEN Raise("KeyError")
    ELSE IF ~Selects(Head(snaps), snapshot_id)
      THEN CollectSnapshots(Tail(snaps), snapshot_id, acc)
    ELSE LET inner == CollectRealities(Head(snaps).reality, acc)
         IN  IF inner.kind = "raise" THEN inner
             ELSE CollectSnapshots(Tail(snaps), snapshot_id, inner.value)

\* line 45-59, once api_request_with_retry has returned or raised
get_active_realities(how, resp, snapshot_id) ==
    IF how = "raised" THEN Raise("APIResponseError")                 \* line 45
    ELSE IF resp = NoResponse THEN Raise("AttributeError")           \* line 47
    ELSE IF resp.status # 200 THEN Raise("APIResponseError")         \* line 48
    ELSE IF resp.body.kind = "notjson" THEN Raise("JSONDecodeError") \* line 50
    ELSE IF resp.body.result = Absent THEN Return(<<>>)              \* line 53
    ELSE CollectSnapshots(resp.body.snaps, snapshot_id, <<>>)

\* The snapshot lists a server may send, by size: SnapSeqs(n, ids, entries) are
\* the lists of snapshot entries with n nodes in all, a snapshot entry and a
\* reality entry counting one node each.
RECURSIVE RealitySeqs(_, _)
RealitySeqs(k, entries) ==
    IF k = 0 THEN {<<>>}
    ELSE {Append(rs, e) : rs \in RealitySeqs(k - 1, entries), e \in entries}

RECURSIVE SnapSeqs(_, _, _)
SnapSeqs(n, ids, entries) ==
    IF n = 0 THEN {<<>>}
    ELSE UNION {
           {<<[id |-> i, reality |-> rs]>> \o rest :
               i \in ids, rs \in RealitySeqs(k, entries),
               rest \in SnapSeqs(n - 1 - k, ids, entries)} :
           k \in 0..(n - 1)}

SnapshotBodies(maxNodes, ids, entries) ==
    {NotJson, EmptyBody} \cup
    {Body("object", "true", "object", Absent, snaps) :
        snaps \in UNION {SnapSeqs(n, ids, entries) : n \in 0..maxNodes}}

SnapshotResponses(bodies) ==
    [status : {200}, body : bodies] \cup
    [status : StatusCodes \ {200}, body : {EmptyBody}]

RealityEntries == [id : RealityIds \cup {Absent}, status : StatusStrings \cup {Absent}]
FetchResponses ==
    SnapshotResponses(SnapshotBodies(MaxNodes, SnapshotIds \cup {Absent}, RealityEntries))

RetryResponses == [status : StatusCodes, body : {EmptyBody}]
RequestNames == {"sign_in", "get_all_snapshots"}
TestRequest(name) ==
    [method |-> "GET", name |-> name, url |-> <<"test">>, auth |-> <<>>]

InitRun ==
    /\ token = None
    /\ signin = NoOutcome
    /\ json_files = 0
    /\ idx = 0
    /\ data = NoData
    /\ active = NoOutcome
    /\ results = <<>>
    /\ csv_opens = 0
    /\ csv_lines = <<>>
    /\ fetchlog = <<>>
    /\ outcomes = <<>>

InitCall ==
    /\ rpc = "idle"
    /\ request = NoRequest
    /\ retries = 0
    /\ attempt = 0
    /\ response = NoResponse
    /\ error = NoError
    /\ nFail = 0
    /\ log = <<>>
    /\ delivered = NoResponse
    /\ sent = {}

\* A caller of api_request_with_retry with any retries argument and any
\* transport that raises on its first nFail requests.
CallWithRetries ==
    /\ pc = "caller"
    /\ rpc = "idle"
    /\ \E name \in RequestNames, r \in 0..MaxRetries, fails \in 0..MaxFail :
         ApiEnter(TestRequest(name), r, fails)
    /\ UNCHANGED pc
    /\ UNCHANGED runvars

InitRetry == pc = "caller" /\ InitCall /\ InitRun
NextRetry ==
    \/ CallWithRetries
    \/ TransportRaises
    \/ Sleep
    \/ TransportResponds(RetryResponses)
SpecRetry == InitRetry /\ [][NextRetry]_vars

(***************************************************************************)
(* __main__ and sign_in as the script runs them                            *)
(***************************************************************************)
\* line 116, 28-30: sign_in is called and issues its request
SignInCall ==
    /\ pc = "main"
    /\ \E fails \in 0..DefaultRetries :
         ApiEnter(SignInRequest, DefaultRetries, fails)
    /\ pc' = "sign_in"
    /\ UNCHANGED runvars

\* line 30-39, 116-119: sign_in returns the token and the script goes on to
\* process_custom_snapshots, or it raises and nothing catches the error
SignInReturns ==
    /\ pc = "sign_in"
    /\ rpc \in {"returned", "raised"}
    /\ signin' = sign_in(rpc, response)
    /\ IF signin'.kind = "return"
         THEN /\ token' = signin'.value
              /\ pc' = "process"
         ELSE /\ token' = token
              /\ pc' = "crash"
    /\ UNCHANGED callvars
    /\ UNCHANGED <<json_files, idx, data, active, results, csv_opens, csv_lines,
                   fetchlog, outcomes>>

(***************************************************************************)
(* process_custom_snapshots                                                *)
(***************************************************************************)
\* What a selected file may hold: text that is not JSON, JSON that is not an
\* object, or an object whose three fields are a value, "" or missing
\* (data.get gives None).
FileContents ==
    {[kind |-> k, project_id |-> None, structure_id |-> None, snapshot_id |-> None] :
        k \in {"notjson", "notdict"}} \cup
    [kind : {"dict"}, project_id : {"P1", None, ""}, structure_id : {"S1", None, ""},
     snapshot_id : SnapshotIds \cup {None, ""}]

\* Python truth of a field value
Truthy(v) == v \notin {None, ""}

\* line 79: not all([project_id, structure_id, snapshot_id])
MissingFields_ProjectOnly(d) == ~Truthy(d.project_id)
MissingFields(d) ==
    ~(Truthy(d.project_id) /\ Truthy(d.structure_id) /\ Truthy(d.snapshot_id))

\* line 84-90: one row per reality id, in the order of the list
RECURSIVE WithoutRepeats(_)
WithoutRepeats(seq) ==
    IF seq = <<>> THEN <<>>
    ELSE LET front == WithoutRepeats(SubSeq(seq, 1, Len(seq) - 1))
             last == seq[Len(seq)]
         IN  IF \E k \in DOMAIN front : front[k] = last THEN front
             ELSE Append(front, last)
RowsFor_Unique(d, rids) ==
    [i \in DOMAIN WithoutRepeats(rids) |->
        [project_id |-> d.project_id, structure_id |-> d.structure_id,
         snapshot_id |-> d.snapshot_id, reality_id |-> WithoutRepeats(rids)[i]]]
RowsFor(d, rids) ==
    [i \in DOMAIN rids |->
        [project_id |-> d.project_id, structure_id |-> d.structure_id,
         snapshot_id |-> d.snapshot_id, reality_id |-> rids[i]]]

\* line 92: except Exception catches every exception the loop body raises here
Exceptions == {"APIResponseError", "JSONDecodeError", "KeyError", "AttributeError"}
Catches_ApiErrorsOnly(exc) == exc = "APIResponseError"
Catches(exc) == exc \in Exceptions

\* line 70: the for loop has gone through json_files
ScanComplete_AfterFirst(i, n) == i >= 1 \/ i >= n
ScanComplete(i, n) == i >= n

\* line 97-100: the header and the rows as DictWriter writes them
Header == <<"project_id", "structure_id", "snapshot_id", "reality_id">>
CsvRow(row) == <<row.project_id, row.structure_id, row.snapshot_id, row.reality_id>>
CsvRows(rows) == [i \in DOMAIN rows |-> CsvRow(rows[i])]

\* line 62-68: results is empty and the walk selects the .json files.
\* custom_folder and output_csv are what the caller passes (line 112-113
\* leave them to be filled in): the folder holds any number of .json files up
\* to MaxFiles and the output path can be opened for writing.
Walk ==
    /\ pc = "process"
    /\ \E n \in 0..MaxFiles : json_files' = n
    /\ results' = <<>>
    /\ idx' = 0
    /\ pc' = "loop"
    /\ FramePopped
    /\ UNCHANGED <<token, signin, data, active, csv_opens, csv_lines, fetchlog,
                   outcomes>>

\* line 70-73: the next file is opened and read.  The locals of the previous
\* iteration (data, active_realities, the frames of the calls it made) are
\* dead by then: the steps that end an iteration clear them.
OpenFile ==
    /\ pc = "loop"
    /\ ~ScanComplete(idx, json_files)
    /\ \E d \in FileContents : data' = d
    /\ active' = NoOutcome
    /\ pc' = "file"
    /\ UNCHANGED callvars
    /\ UNCHANGED <<token, signin, json_files, idx, results, csv_opens, csv_lines,
                   fetchlog, outcomes>>

\* line 73, 75: json.load raises on text that is not JSON; data.get raises on
\* JSON that is not an object
ParseFails ==
    /\ pc = "file"
    /\ data.kind \in {"notjson", "notdict"}
    /\ active' = Raise(IF data.kind = "notjson" THEN "JSONDecodeError"
                       ELSE "AttributeError")
    /\ pc' = "except"
    /\ UNCHANGED callvars
    /\ UNCHANGED <<token, signin, json_files, idx, data, results, csv_opens,
                   csv_lines, fetchlog, outcomes>>

\* line 75-81: a field is missing, the file is skipped
SkipFile ==
    /\ pc = "file"
    /\ data.kind = "dict"
    /\ MissingFields(data)
    /\ idx' = idx + 1
    /\ pc' = "loop"
    /\ data' = NoData
    /\ outcomes' = Append(outcomes, "skipped")
    /\ UNCHANGED callvars
    /\ UNCHANGED <<token, signin, json_files, active, results, csv_opens,
                   csv_lines, fetchlog>>

\* line 83, 43-45: get_active_realities is called and issues its request
CallFetcher ==
    /\ pc = "file"
    /\ data.kind = "dict"
    /\ ~MissingFields(data)
    /\ \E fails \in 0..DefaultRetries :
         ApiEnter(SnapshotsRequest(data.project_id, data.structure_id, token),
                  DefaultRetries, fails)
    /\ pc' = "fetch"
    /\ UNCHANGED runvars

\* line 45-59: get_active_realities returns its list or raises
FetcherReturns ==
    /\ pc = "fetch"
    /\ rpc \in {"returned", "raised"}
    /\ active' = get_active_realities(rpc, response, data.snapshot_id)
    /\ IF active'.kind = "return"
         THEN /\ fetchlog' = Append(fetchlog, [data |-> data, value |-> active'.value])
              /\ pc' = "fetched"
         ELSE /\ fetchlog' = fetchlog
              /\ pc' = "except"
    /\ UNCHANGED callvars
    /\ UNCHANGED <<token, signin, json_files, idx, data, results, csv_opens,
                   csv_lines, outcomes>>

\* line 84-90: the rows of this file are appended
AppendRows ==
    /\ pc = "fetched"
    /\ results' = results \o RowsFor(data, active.value)
    /\ idx' = idx + 1
    /\ pc' = "loop"
    /\ data' = NoData
    /\ active' = NoOutcome
    /\ outcomes' = Append(outcomes, "rows")
    /\ FramePopped
    /\ UNCHANGED <<token, signin, json_files, csv_opens, csv_lines, fetchlog>>

\* line 92-93: the error is printed and the loop goes on; an exception the
\* handler does not catch leaves process_custom_snapshots and ends the script
HandleError ==
    /\ pc = "except"
    /\ IF Catches(active.exc)
         THEN /\ idx' = idx + 1
              /\ outcomes' = Append(outcomes, "error")
              /\ pc' = "loop"
         ELSE /\ idx' = idx
              /\ outcomes' = outcomes
              /\ pc' = "crash"
    /\ data' = NoData
    /\ active' = NoOutcome
    /\ FramePopped
    /\ UNCHANGED <<token, signin, json_files, results, csv_opens, csv_lines,
                   fetchlog>>

\* line 96: open(output_csv, "w") creates or truncates the file
OpenCsv ==
    /\ pc = "loop"
    /\ ScanComplete(idx, json_files)
    /\ csv_opens' = csv_opens + 1
    /\ csv_lines' = <<>>
    /\ pc' = "csv_open"
    /\ UNCHANGED callvars
    /\ UNCHANGED <<token, signin, json_files, idx, data, active, results, fetchlog,
                   outcomes>>

\* line 97-99: writeheader
WriteHeader ==
    /\ pc = "csv_open"
    /\ csv_lines' = Append(csv_lines, Header)
    /\ pc' = "csv_header"
    /\ UNCHANGED callvars
    /\ UNCHANGED <<token, signin, json_files, idx, data, active, results, csv_opens,
                   fetchlog, outcomes>>

\* line 100-102: writerows, the file is closed, the script ends
WriteRows ==
    /\ pc = "csv_header"
    /\ csv_lines' = csv_lines \o CsvRows(results)
    /\ pc' = "exit"
    /\ UNCHANGED callvars
    /\ UNCHANGED <<token, signin, json_files, idx, data, active, results, csv_opens,
                   fetchlog, outcomes>>

\* The answers of the server in a run of the script: the sign-in envelopes,
\* and lists of "SN1" snapshots whose entries are active or not and may lack
\* their _id (every outcome of get_active_realities arises from them).
RunEntries ==
    {[id |-> "R1", status |-> "Active"], [id |-> "R2", status |-> "Active"],
     [id |-> "R1", status |-> "inactive"], [id |-> Absent, status |-> "Active"]}
RunSnapshotResponses ==
    SnapshotResponses(SnapshotBodies(RunNodes, {"SN1"}, RunEntries))
RunResponses ==
    IF request.name = "sign_in" THEN SignInResponses ELSE RunSnapshotResponses

Init == pc = "main" /\ InitCall /\ InitRun
Next ==
    \/ SignInCall
    \/ TransportRaises
    \/ Sleep
    \/ TransportResponds(RunResponses)
    \/ SignInReturns
    \/ Walk
    \/ OpenFile
    \/ ParseFails
    \/ SkipFile
    \/ CallFetcher
    \/ FetcherReturns
    \/ AppendRows
    \/ HandleError
    \/ OpenCsv
    \/ WriteHeader
    \/ WriteRows
Spec == Init /\ [][Next]_vars

\* get_active_realities on its own: any valid descriptor, any token, any
\* transport and any answer of the server.
InitFetch ==
    /\ pc = "file"
    /\ InitCall
    /\ token \in Tokens
    /\ signin = Return(token)
    /\ json_files = 1
    /\ idx = 0
    /\ data \in {d \in FileContents : d.kind = "dict" /\ ~MissingFields(d)}
    /\ active = NoOutcome
    /\ results = <<>>
    /\ csv_opens = 0
    /\ csv_lines = <<>>
    /\ fetchlog = <<>>
    /\ outcomes = <<>>
NextFetch ==
    \/ CallFetcher
    \/ TransportRaises
    \/ Sleep
    \/ TransportResponds(FetchResponses)
    \/ FetcherReturns
SpecFetch == InitFetch /\ [][NextFetch]_vars

CallDone == rpc \in {"returned", "raised"}

\* C1: a transport that raises on its first nFail requests and then succeeds:
\* with retries >= nFail + 1 the call returns the successful response; with
\* retries <= nFail it raises APIResponseError naming the operation and the
\* attempt count retries, for every retries >= 0.
C1_RetryContract ==
    CallDone =>
        /\ retries >= nFail + 1 =>
              /\ rpc = "returned"
              /\ response # NoResponse
              /\ response = delivered
        /\ retries <= nFail =>
              /\ rpc = "raised"
              /\ error = [type |-> "APIResponseError", op |-> request.name,
                          attempts |-> retries]

\* C2: when the first request yields an HTTP response of any status code,
\* exactly one request is issued, nothing sleeps, and that response is
\* returned unchanged, not raised.
C2_NoRetryOnResponse ==
    (nFail = 0 /\ Requests(log) >= 1) =>
        /\ log = <<"request">>
        /\ rpc = "returned"
        /\ error = NoError
        /\ response = delivered
        /\ response.status \in StatusCodes

C2_Witness ==
    /\ nFail = 0
    /\ log = <<"request">>
    /\ rpc = "returned"
    /\ response.status = 500

\* What is left of the loop: two steps (request, sleep) per remaining attempt.
Variant == 2 * (retries - attempt) - (IF rpc = "sleep" THEN 1 ELSE 0)

C10_Shape ==
    (retries >= 1 /\ rpc # "idle") =>
        /\ Requests(log) <= retries
        /\ \A i \in DOMAIN log : log[i] = (IF i % 2 = 1 THEN "request" ELSE "sleep")
        /\ CallDone =>
              /\ Requests(log) >= 1
              /\ Sleeps(log) = Requests(log) - 1
              /\ log[Len(log)] = "request"
              /\ rpc = "returned" => response \in RetryResponses
              /\ rpc = "raised" => error.type = "APIResponseError"
        /\ ~CallDone => ENABLED NextRetry

\* C10: for retries >= 1 and any pattern of transport failures, a call issues
\* at most retries requests, sleeps exactly once between two consecutive
\* requests and never after the last one, and terminates, returning a
\* response or raising APIResponseError: an unfinished call can always take a
\* step, and every step of the loop uses up the variant.
C10_BoundedRetryLoop ==
    /\ []C10_Shape
    /\ [][(retries >= 1 /\ rpc \in {"attempt", "sleep"}) =>
            (CallDone' \/ (Variant' < Variant /\ Variant' >= 0))]_vars

C10_Witness ==
    /\ retries = 3
    /\ rpc = "raised"
    /\ log = <<"request", "sleep", "request", "sleep", "request">>

(***************************************************************************)
(* sign_in, as __main__ calls it                                           *)
(***************************************************************************)
SignInAnswered ==
    /\ pc \in {"process", "crash"}
    /\ request.name = "sign_in"
    /\ rpc = "returned"

\* C3: sign_in raises APIResponseError whenever the status code of the
\* response is not 200 or 201, or the body's success flag is false or absent;
\* with status 200/201, success true and a token present it returns exactly
\* result.token.
C3_SignInContract ==
    SignInAnswered =>
        LET b == delivered.body IN
        /\ (\/ delivered.status \notin {200, 201}
            \/ (b.kind = "object" /\ b.success \in {Absent, "false"}))
               => signin = Raise("APIResponseError")
        /\ (/\ delivered.status \in {200, 201}
            /\ b.kind = "object"
            /\ b.success = "true"
            /\ b.result = "object"
            /\ b.token \in Tokens)
               => (signin = Return(b.token) /\ token = b.token)

C3_Witness ==
    /\ SignInAnswered
    /\ delivered.status = 201
    /\ delivered.body.success = "true"
    /\ signin = Return("tokB")
    /\ token = "tokB"

(***************************************************************************)
(* get_active_realities                                                    *)
(***************************************************************************)
EqualsIgnoringCase(st, word) ==
    word = "active" /\ st \in {"active", "Active", "ACTIVE", "aCTIVE", "acTive"}

\* The identifiers, in the order of the response, of the reality entries that
\* have one, belong to a snapshot whose _id is snapshot_id and have a status
\* equal to "active" ignoring case.
MatchingActive(snap, snapshot_id) ==
    IF snap.id = snapshot_id
      THEN SelectSeq(snap.reality,
                     LAMBDA e : EqualsIgnoringCase(e.status, "active") /\ e.id # Absent)
      ELSE <<>>
RECURSIVE ActiveIdsOf(_, _)
ActiveIdsOf(snaps, snapshot_id) ==
    IF snaps = <<>> THEN <<>>
    ELSE LET es == MatchingActive(Head(snaps), snapshot_id)
         IN  [i \in DOMAIN es |-> es[i].id] \o ActiveIdsOf(Tail(snaps), snapshot_id)

\* Every key the traversal reads is there: each snapshot entry has an _id and
\* each active reality entry of a matching snapshot has an _id.
KeysPresent(snaps, snapshot_id) ==
    /\ \A i \in DOMAIN snaps : snaps[i].id # Absent
    /\ \A i \in DOMAIN snaps :
         snaps[i].id = snapshot_id =>
            \A j \in DOMAIN snaps[i].reality :
                EqualsIgnoringCase(snaps[i].reality[j].status, "active")
                    => snaps[i].reality[j].id # Absent

FetcherAnswered ==
    /\ pc \in {"fetched", "except"}
    /\ rpc = "returned"
    /\ delivered.status = 200

SnapshotRequestsSent == {r \in sent : r.name = "get_all_snapshots"}

\* C5: a descriptor file that lacks project_id, structure_id or snapshot_id
\* is skipped: no request is issued for it, no row is appended, and the loop
\* goes on to the next file.
C5_SkipMissingFields ==
    [][(/\ pc = "file"
        /\ data.kind = "dict"
        /\ None \in {data.project_id, data.structure_id, data.snapshot_id})
       => (/\ pc' = "loop"
           /\ idx' = idx + 1
           /\ outcomes' = Append(outcomes, "skipped")
           /\ results' = results
           /\ sent' = sent
           /\ rpc' = rpc
           /\ fetchlog' = fetchlog
           /\ csv_opens' = csv_opens)]_vars

C5_Witness ==
    /\ pc = "loop"
    /\ outcomes = <<"skipped", "rows">>
    /\ Len(results) = 2
    /\ Cardinality(SnapshotRequestsSent) = 1

\* The rows the CSV must hold: those of the lists the fetcher returned.
RECURSIVE RowsOfLog(_)
RowsOfLog(flog) ==
    IF flog = <<>> THEN <<>>
    ELSE LET e == Head(flog)
         IN  [i \in DOMAIN e.value |->
                 <<e.data.project_id, e.data.structure_id, e.data.snapshot_id,
                   e.value[i]>>] \o RowsOfLog(Tail(flog))

NumberOf(what, seq) == Cardinality({i \in DOMAIN seq : seq[i] = what})

C6_Batch ==
    /\ (pc = "crash") => (signin.kind = "raise")
    /\ (pc \notin {"exit", "crash"}) => ENABLED Next
    /\ (pc = "exit") =>
          /\ Len(outcomes) = json_files
          /\ csv_opens = 1
          /\ NumberOf("rows", outcomes) = Len(fetchlog)
          /\ csv_lines = <<Header>> \o RowsOfLog(fetchlog)

\* C6: an exception in the processing of one file does not abort the batch:
\* the handler takes the loop to the next file with the rows as they were,
\* every file is gone through, the script cannot stop before the CSV is
\* written, and the CSV holds the rows of the files that raised nothing.
C6_ErrorsIsolated ==
    /\ []C6_Batch
    /\ [][(pc = "except")
          => (/\ pc' = "loop"
              /\ idx' = idx + 1
              /\ outcomes' = Append(outcomes, "error")
              /\ results' = results
              /\ json_files' = json_files
              /\ csv_opens' = csv_opens
              /\ csv_lines' = csv_lines)]_vars

C6_Witness ==
    /\ pc = "exit"
    /\ outcomes = <<"error", "rows">>
    /\ Len(csv_lines) = 2

\* C7: the CSV is written once, after the whole scan: while a file is
\* unprocessed the output has not been opened and holds nothing; it is opened
\* at most once; and when the run ends it holds the header and then every
\* accumulated row.
C7_CsvWrittenOnceAtEnd ==
    /\ csv_opens <= 1
    /\ (pc \in {"main", "sign_in", "process", "crash"} \/ idx < json_files
        \/ Len(outcomes) < json_files)
          => (csv_opens = 0 /\ csv_lines = <<>>)
    /\ (pc = "exit") =>
          /\ csv_opens = 1
          /\ csv_lines[1] = Header
          /\ Len(csv_lines) = 1 + Len(results)
          /\ \A i \in DOMAIN results :
                csv_lines[i + 1] = <<results[i].project_id, results[i].structure_id,
                                     results[i].snapshot_id, results[i].reality_id>>

C7_Witness ==
    /\ pc = "exit"
    /\ json_files = 2
    /\ Len(csv_lines) = 3

NothingProcessed ==
    /\ SnapshotRequestsSent = {}
    /\ idx = 0
    /\ outcomes = <<>>
    /\ results = <<>>
    /\ fetchlog = <<>>
    /\ csv_opens = 0
    /\ csv_lines = <<>>

\* C8: when sign_in raises, the script ends there with the error: no snapshot
\* list is requested, no file is processed, no CSV is written; and every
\* snapshot-list request of a run carries the token its sign_in returned.
C8_SignInFatal ==
    /\ (signin.kind = "raise") => (pc = "crash" /\ NothingProcessed /\ ~ENABLED Next)
    /\ (signin.kind = None) => NothingProcessed
    /\ \A r \in SnapshotRequestsSent :
          /\ signin.kind = "return"
          /\ token = signin.value
          /\ token \in Tokens
          /\ r.auth = <<"Bearer", token>>

C8_Witness ==
    /\ pc = "crash"
    /\ delivered.status = 200
    /\ delivered.body.success = "false"
    /\ signin = Raise("APIResponseError")

\* C9: the rows are the concatenation, in file order, of one row per reality
\* id the fetcher returned for each file it returned a list for, in the order
\* of that list; nothing is dropped, reordered or deduplicated.
C9_RowsInScanOrder ==
    /\ (pc # "fetched") =>
          /\ Len(results) = Len(RowsOfLog(fetchlog))
          /\ \A i \in DOMAIN results :
                <<results[i].project_id, results[i].structure_id,
                  results[i].snapshot_id, results[i].reality_id>> = RowsOfLog(fetchlog)[i]
    /\ (pc = "exit") => (csv_lines = <<Header>> \o RowsOfLog(fetchlog))
    /\ NumberOf("rows", outcomes) + (IF pc = "fetched" THEN 1 ELSE 0) = Len(fetchlog)

C9_Witness ==
    /\ pc = "exit"
    /\ Len(fetchlog) = 2
    /\ fetchlog[1] = fetchlog[2]
    /\ fetchlog[1].value = <<"R2", "R1">>
    /\ Len(results) = 4
    /\ results[1] = results[3]
    /\ results[1].reality_id = "R2"
====
